---------------------------- MODULE Spec2Model ----------------------------
(***************************************************************************)
(* A model of the WhatsApp bot's message-processing and connection engine: *)
(* the command registry and dispatcher (CommandManager), the per-chat rate *)
(* limiter (RateLimiterService), the webhook signer (WebhookService) and   *)
(* the session manager (WhatsAppClient).  Each component is one object of  *)
(* the program with its own operations; the module gives one specification *)
(* per component over the shared state.                                    *)
(***************************************************************************)
EXTENDS Integers, Sequences, FiniteSets, TLC

VARIABLES
    now,                \* Date.now(), in model time units
    commands,           \* CommandManager.commands: lower-cased name -> Command
    commandAliases,     \* CommandManager.commandAliases: lower-cased alias -> lower-cased name
    commandCooldowns,   \* CommandManager.commandCooldowns: name -> (chatId -> lastUsed)
    lastOp,             \* the last CommandManager call and what it returned
    lastTrue,           \* per command and chat: when executeCommand last returned true
    rlMemory,           \* RateLimiterService.rateLimiter: chatId -> consumed points and expiry
    rlStore,            \* the Store's rate_limits table: chatId -> count and reset_time
    rlLast,             \* the last RateLimiterService call and what it returned
    rlEpisode,          \* per chat: the calls since one found no rate-limit state
    sigSigned,          \* the payload the signature at hand was generated for
    sigSignature,       \* the signature at hand, a string of hexadecimal digits
    sigLast,            \* the last WebhookService call and what it returned
    client,             \* the condition of the underlying whatsapp-web.js client
    reconnectAttempts,  \* WhatsAppClient.reconnectAttempts
    reconnecting,       \* WhatsAppClient.reconnecting
    qrRefreshTimer,     \* the QR refresh timeout is pending
    healthCheckTimer,   \* the health-check interval is running
    reconnectTimers,    \* the pending setTimeout(reconnect) callbacks
    reconnectInits,     \* the reconnect() calls awaiting initialize()
    startInit,          \* start()'s initialize() is awaiting the client
    exhausted,          \* max_reconnect_attempts_reached emitted since the last 'ready'
    failedRun,          \* reconnect() calls that failed since the last 'ready'
    sessLast,           \* the last WhatsAppClient call or event and what it did
    running,            \* WhatsAppBot.running
    failed,             \* max_reconnect_attempts_reached emitted and initialize() not called since
    whLast,             \* the last POST /webhook request and what the handler did with it
    inbound,            \* per inbound message: how far handleMessage and processMessage got
    pipeLast,           \* the last run of processMessage: its message, what happened, the outcome
    plugins,            \* MiddlewareManager.plugins, with the state of each plugin's initialize()
    aborted,            \* the process's unhandledRejection handler has run process.exit(1)
    execs,              \* the executeCommand calls awaiting their command's handler
    rlCalls,            \* the checkRateLimit calls under way, each at one of its await points
    rlAllowed,          \* per chat: how many of the calls made step by step returned allowed = true
    delayLast,          \* the last calculateReconnectDelay call and the delay it returned
    commandStats,       \* the Store's command_stats table: command name -> usage_count
    middlewares,        \* MiddlewareManager.middlewares: the builtin ones, then a plugin's by its name
    mwLast,             \* the last MiddlewareManager.execute: the plugin middlewares it ran
    stopLast            \* the last WhatsAppBot.stop() call and what it tore down

cmdVars == <<commands, commandAliases, commandCooldowns, lastOp, lastTrue>>

rlVars == <<rlMemory, rlStore, rlLast, rlEpisode>>

sigVars == <<sigSigned, sigSignature, sigLast>>

sessVars == <<client, reconnectAttempts, reconnecting, qrRefreshTimer, healthCheckTimer,
              reconnectTimers, reconnectInits, startInit, exhausted, failedRun, sessLast,
              running, failed>>

svcVars == <<commandStats, middlewares, mwLast, stopLast>>

auxVars == <<rlCalls, rlAllowed, delayLast, svcVars>>

botVars == <<whLast, inbound, pipeLast, plugins, aborted, execs, auxVars>>

vars == <<now, cmdVars, rlVars, sigVars, sessVars, botVars>>

---------------------------------------------------------------------------
(* Bounds of the model.                                                    *)

\* The clock runs from 1 to MaxTime.
MaxTime == 3

\* config.rateLimitWindowMs and config.rateLimitMaxRequests, scaled down.
WindowMs == 2
MaxRequests == 2

---------------------------------------------------------------------------
(* Strings.  The tokens that occur in the model and String.toLowerCase on  *)
(* them.                                                                   *)

Tokens == {"ping", "Ping", "p", "P", "status", "s", "S", "sticker", "nope"}

ToLowerCase(s) ==
    CASE s = "Ping" -> "ping"
      [] s = "P"    -> "p"
      [] s = "S"    -> "s"
      [] OTHER      -> s

Keys == {ToLowerCase(t) : t \in Tokens}

\* The command tokens of the inbound messages.
DispatchTokens == {"ping", "Ping", "P", "status", "s", "nope"}

\* The names given to unregisterCommand.
UnregisterTokens == {"Ping", "status", "sticker", "S", "nope"}

Chats == {"chatA", "chatB"}

---------------------------------------------------------------------------
(* Commands.  A Command is an object with a name, aliases, a cooldown and  *)
(* an execute handler; NoExecute stands for a missing handler.             *)

NoExecute == "<no execute>"
NoHandler == "<none>"
NoAlias   == "<no alias>"

\* The cooldown of the command with a cooldown, in model time units.
PingCooldown == 2

\* Map.get(key) === undefined
NoCommand == [name |-> "", aliases |-> <<>>, cooldown |-> 0, execute |-> NoExecute]

cmdPing    == [name |-> "ping", aliases |-> <<"p">>, cooldown |-> PingCooldown, execute |-> "pingHandler"]
cmdPingDup == [name |-> "Ping", aliases |-> <<"P", "status">>, cooldown |-> 0, execute |-> "dupHandler"]
cmdStatus  == [name |-> "status", aliases |-> <<"s">>, cooldown |-> 0, execute |-> "statusHandler"]
cmdSticker == [name |-> "sticker", aliases |-> <<"S">>, cooldown |-> 0, execute |-> "stickerHandler"]
cmdNoName  == [name |-> "", aliases |-> <<"p">>, cooldown |-> 0, execute |-> "anonHandler"]
cmdNoExec  == [name |-> "status", aliases |-> <<"s">>, cooldown |-> 0, execute |-> NoExecute]

\* A Command whose cooldown validateCommand reports as an error.
cmdNegCooldown == [name |-> "sticker", aliases |-> <<>>, cooldown |-> -1, execute |-> "stickerHandler"]

\* The Command objects handed to registerCommand: the builtin ping, a
\* command named "Ping" whose aliases are "P" and the name of another
\* command, the builtin status and the sticker command (their cooldowns
\* play no part and are left out; sticker's alias "s" is written in upper
\* case), a command without a name and one without a handler.
CommandInputs == {cmdPing, cmdPingDup, cmdStatus, cmdSticker, cmdNoName, cmdNoExec}

\* commandCooldowns.get(name): a bucket that is absent, or chatId -> lastUsed
\* (0: the chat has no entry; Date.now() is never 0).
NoBucket == [present |-> FALSE, last |-> [k \in Chats |-> 0]]

---------------------------------------------------------------------------
(* CommandManager.                                                         *)

\* A validation that tests the name alone.
registerCommand_nameOnly(command) ==
    command.name = ""

\* registerCommand's validation: !command.name || !command.execute
registerCommand_invalid(command) ==
    command.name = "" \/ command.execute = NoExecute

\* command.aliases.forEach(alias => commandAliases.set(alias.toLowerCase(), name))
RECURSIVE setAliases(_, _, _, _)
setAliases(aliasMap, aliases, i, target) ==
    IF i > Len(aliases) THEN aliasMap
    ELSE setAliases([aliasMap EXCEPT ![ToLowerCase(aliases[i])] = target],
                    aliases, i + 1, target)

\* command.aliases.forEach(alias => commandAliases.delete(alias.toLowerCase()))
RECURSIVE deleteAliases(_, _, _)
deleteAliases(aliasMap, aliases, i) ==
    IF i > Len(aliases) THEN aliasMap
    ELSE deleteAliases([aliasMap EXCEPT ![ToLowerCase(aliases[i])] = NoAlias],
                       aliases, i + 1)

\* findCommand on given maps: the direct name first, then the alias map.
findCommandIn(cmds, aliasMap, commandName) ==
    LET name == ToLowerCase(commandName) IN
    IF cmds[name] # NoCommand THEN cmds[name]
    ELSE IF aliasMap[name] # NoAlias THEN cmds[aliasMap[name]]
    ELSE NoCommand

findCommand(commandName) == findCommandIn(commands, commandAliases, commandName)

\* A cooldown test that still holds at lastUsed + cooldown.
isOnCooldown_inclusive(commandName, chatId) ==
    LET name    == ToLowerCase(commandName)
        command == commands[name]
        bucket  == commandCooldowns[name]
    IN  IF command = NoCommand \/ command.cooldown <= 0 THEN FALSE
        ELSE IF ~bucket.present THEN FALSE
        ELSE IF bucket.last[chatId] = 0 THEN FALSE
        ELSE now <= bucket.last[chatId] + command.cooldown

\* isOnCooldown(commandName, chatId)
isOnCooldown(commandName, chatId) ==
    LET name    == ToLowerCase(commandName)
        command == commands[name]
        bucket  == commandCooldowns[name]
    IN  IF command = NoCommand \/ command.cooldown <= 0 THEN FALSE
        ELSE IF ~bucket.present THEN FALSE
        ELSE IF bucket.last[chatId] = 0 THEN FALSE
        ELSE now < bucket.last[chatId] + command.cooldown

\* setCooldown(commandName, chatId, cooldown): the cooldown map afterwards.
setCooldown(commandName, chatId, cooldown) ==
    IF cooldown <= 0 THEN commandCooldowns
    ELSE LET name == ToLowerCase(commandName)
             bucket == commandCooldowns[name]
         IN  [commandCooldowns EXCEPT ![name] =
                 [present |-> TRUE, last |-> [bucket.last EXCEPT ![chatId] = now]]]

\* What lastOp records of a call: the operation, its token and chat, its
\* result, the key of the command it resolved and the handler it invoked;
\* for registerCommand the Command given and whether a map changed; for
\* executeCommand when the command last returned true in the chat before the
\* call (0: never) and whether the handler threw.
Call(op, token, chat) ==
    [op |-> op, token |-> token, chat |-> chat, result |-> "ok", found |-> "",
     invoked |-> NoHandler, arg |-> NoCommand, changed |-> FALSE, since |-> 0,
     threw |-> FALSE]

RegisterCommand(command) ==
    /\ UNCHANGED <<now, commandCooldowns, rlVars, sigVars, sessVars, botVars>>
    /\ IF registerCommand_invalid(command)
       THEN /\ UNCHANGED <<commands, commandAliases, lastTrue>>
            /\ lastOp' = [Call("register", command.name, "") EXCEPT
                             !.result = "error", !.arg = command]
       ELSE /\ commands' = [commands EXCEPT ![ToLowerCase(command.name)] = command]
            /\ commandAliases' = setAliases(commandAliases, command.aliases, 1,
                                            ToLowerCase(command.name))
            /\ lastTrue' = [lastTrue EXCEPT ![ToLowerCase(command.name)] = [k \in Chats |-> 0]]
            /\ lastOp' = [Call("register", command.name, "") EXCEPT
                             !.arg = command,
                             !.changed = (commands' # commands
                                          \/ commandAliases' # commandAliases)]

UnregisterCommand(commandName) ==
    LET name    == ToLowerCase(commandName)
        command == commands[name]
    IN
    /\ IF command = NoCommand
       THEN /\ lastOp' = [Call("unregister", commandName, "") EXCEPT !.result = "error"]
            /\ UNCHANGED <<commands, commandAliases, commandCooldowns, lastTrue>>
       ELSE /\ commands' = [commands EXCEPT ![name] = NoCommand]
            /\ commandAliases' = deleteAliases(commandAliases, command.aliases, 1)
            /\ commandCooldowns' = [commandCooldowns EXCEPT ![name] = NoBucket]
            /\ lastTrue' = [lastTrue EXCEPT ![name] = [k \in Chats |-> 0]]
            /\ lastOp' = Call("unregister", commandName, "")
    /\ UNCHANGED <<now, rlVars, sigVars, sessVars, botVars>>

\* executeCommand on the message body "!" + token (bang) or token alone, in
\* chat chatId; the handler, when it runs, completes or throws.  Between the
\* handler's return and `return true` the code stamps the cooldown and logs;
\* it makes no call to the Store (incrementCommandUsage has no caller).
ExecuteCommand(bang, token, chatId, handlerThrows) ==
    LET command == findCommand(ToLowerCase(token))
        key     == ToLowerCase(command.name)
        call    == Call("execute", token, chatId)
    IN
    /\ IF ~bang \/ command = NoCommand
       THEN /\ lastOp' = [call EXCEPT !.result = "false"]
            /\ UNCHANGED <<commandCooldowns, lastTrue>>
       ELSE IF isOnCooldown(command.name, chatId)
       THEN /\ lastOp' = [call EXCEPT !.result = "false", !.found = key,
                                      !.since = lastTrue[key][chatId]]
            /\ UNCHANGED <<commandCooldowns, lastTrue>>
       ELSE IF handlerThrows
       THEN /\ lastOp' = [call EXCEPT !.result = "false", !.found = key,
                                      !.invoked = command.execute,
                                      !.since = lastTrue[key][chatId],
                                      !.threw = TRUE]
            /\ UNCHANGED <<commandCooldowns, lastTrue>>
       ELSE /\ commandCooldowns' = setCooldown(command.name, chatId, command.cooldown)
            /\ lastTrue' = IF command.cooldown > 0
                           THEN [lastTrue EXCEPT ![key][chatId] = now]
                           ELSE lastTrue
            /\ lastOp' = [call EXCEPT !.result = "true", !.found = key,
                                      !.invoked = command.execute,
                                      !.since = lastTrue[key][chatId]]
    /\ UNCHANGED <<now, commands, commandAliases, rlVars, sigVars, sessVars, botVars>>

\* The 'command' event of processWebhookEvent: getCommand(data.command) finds
\* the command by its name, and its handler is called on a context made for
\* the chat data.chatId; the handler completes or throws (the event then
\* fails).
WebhookCommand(token, chatId, handlerThrows) ==
    LET command == commands[ToLowerCase(token)]
        key     == ToLowerCase(command.name)
        call    == Call("webhook_command", token, chatId)
    IN
    /\ lastOp' = IF command = NoCommand THEN [call EXCEPT !.result = "skipped"]
                 ELSE [call EXCEPT !.result = IF handlerThrows THEN "error" ELSE "ok",
                                   !.found = key,
                                   !.invoked = command.execute,
                                   !.since = lastTrue[key][chatId],
                                   !.threw = handlerThrows]
    /\ UNCHANGED <<now, commands, commandAliases, commandCooldowns, lastTrue, rlVars,
                   sigVars, sessVars, botVars>>

\* executeCommand as the steps between its awaits, for two messages in
\* flight at a time (processMessage is not awaited by the listener of
\* message_received).  The first step finds the command, tests the cooldown
\* and calls the handler; execs[i] is the command whose handler call i
\* awaits, with the chat of the message.
ExecuteCommandBegins(i, token, chatId) ==
    LET command == findCommand(ToLowerCase(token)) IN
    /\ execs[i] = NoCommand
    /\ command # NoCommand
    /\ ~isOnCooldown(command.name, chatId)
    /\ execs' = [execs EXCEPT ![i] = command @@ [chat |-> chatId]]
    /\ UNCHANGED <<now, cmdVars, rlVars, sigVars, sessVars, whLast, inbound, pipeLast,
                   plugins, aborted, auxVars>>

\* The handler of call i completes, and executeCommand sets the cooldown and
\* returns true, or it throws, and executeCommand returns false.
ExecuteCommandEnds(i, handlerThrows) ==
    /\ execs[i] # NoCommand
    /\ execs' = [execs EXCEPT ![i] = NoCommand]
    /\ commandCooldowns' = IF handlerThrows THEN commandCooldowns
                           ELSE setCooldown(execs[i].name, execs[i].chat, execs[i].cooldown)
    /\ UNCHANGED <<now, commands, commandAliases, lastOp, lastTrue, rlVars, sigVars,
                   sessVars, whLast, inbound, pipeLast, plugins, aborted, auxVars>>

\* cleanupCooldowns: drop the expired entries, then the empty buckets.
cleanupBucket(name, bucket) ==
    IF ~bucket.present THEN bucket
    ELSE LET command == commands[name]
             kept == [k \in Chats |->
                        IF bucket.last[k] # 0 /\ command # NoCommand
                           /\ now - bucket.last[k] > command.cooldown
                        THEN 0 ELSE bucket.last[k]]
         IN  IF \A k \in Chats : kept[k] = 0 THEN NoBucket
             ELSE [present |-> TRUE, last |-> kept]

CleanupCooldowns ==
    /\ commandCooldowns' = [name \in Keys |-> cleanupBucket(name, commandCooldowns[name])]
    /\ lastOp' = Call("cleanup", "", "")
    /\ UNCHANGED <<now, commands, commandAliases, lastTrue, rlVars, sigVars, sessVars, botVars>>

\* Time passes between two calls.
TickCmd ==
    /\ now < MaxTime
    /\ now' = now + 1
    /\ lastOp' = Call("tick", "", "")
    /\ UNCHANGED <<commands, commandAliases, commandCooldowns, lastTrue, rlVars,
                   sigVars, sessVars, botVars>>

---------------------------------------------------------------------------
(* RateLimiterService: an in-memory limiter (RateLimiterMemory of          *)
(* rate-limiter-flexible, points = maxRequests, duration = windowMs) in    *)
(* front of the Store's rate_limits row of the chat.                       *)

NoRecord == [points |-> 0, expiresAt |-> 0]
NoRow    == [present |-> FALSE, count |-> 0, resetTime |-> 0]

\* The in-memory record of a key is live until its expiry.
memLive(rec) == rec.expiresAt > now

\* rateLimiter.consume(chatId): the record afterwards.  A live record gains a
\* point, an absent or expired one starts a window.  Every value above
\* maxRequests rejects alike, so the count stops at maxRequests + 1.
memConsume(rec) ==
    IF memLive(rec)
    THEN [rec EXCEPT !.points = IF @ > MaxRequests THEN @ ELSE @ + 1]
    ELSE [points |-> 1, expiresAt |-> now + WindowMs]

\* consume rejects (with the RateLimiterRes) when more than points are consumed.
memRejects(rec) == rec.points > MaxRequests

\* A catch block that fails open on every rejection.
checkRateLimit_failOpen(isError, msBeforeNext) ==
    [allowed |-> TRUE, remainingPoints |-> MaxRequests, msBeforeNext |-> 0]

\* A catch block that denies on every failure.
checkRateLimit_failClosed(isError, msBeforeNext) ==
    [allowed |-> FALSE, remainingPoints |-> 0, msBeforeNext |-> msBeforeNext]

\* What checkRateLimit returns when consume rejects with res: an Error makes
\* it fail open, a RateLimiterRes is a denial.
checkRateLimit_caught(isError, msBeforeNext) ==
    IF isError
    THEN [allowed |-> TRUE, remainingPoints |-> MaxRequests, msBeforeNext |-> 0]
    ELSE [allowed |-> FALSE, remainingPoints |-> 0, msBeforeNext |-> msBeforeNext]

\* The window of the Store's row is over.
storeExpired(row) == row.resetTime < now

\* The Store's branch of checkRateLimit on the row it read: the row it
\* writes ("write" FALSE: it writes nothing and denies).
checkRateLimit_store(row) ==
    IF row.present
    THEN IF storeExpired(row)
         THEN [write |-> TRUE, count |-> 1, resetTime |-> now + WindowMs]
         ELSE IF row.count >= MaxRequests
         THEN [write |-> FALSE, count |-> row.count, resetTime |-> row.resetTime]
         ELSE [write |-> TRUE, count |-> row.count + 1, resetTime |-> row.resetTime]
    ELSE [write |-> TRUE, count |-> 1, resetTime |-> now + WindowMs]

\* The Store's faults during one call: none, getRateLimit throws,
\* updateRateLimit throws.
StoreFaults == {"none", "get", "update"}

\* The calls counted by rlEpisode stop at maxRequests + 2.
episodeAfter(chatId) ==
    IF ~memLive(rlMemory[chatId]) /\ ~rlStore[chatId].present
    THEN [start |-> now, calls |-> 1]
    ELSE IF rlEpisode[chatId].start = 0 THEN rlEpisode[chatId]
    ELSE [rlEpisode[chatId] EXCEPT !.calls = IF @ > MaxRequests + 1 THEN @ ELSE @ + 1]

CheckRateLimit(chatId, fault) ==
    LET rec == memConsume(rlMemory[chatId])
        row == rlStore[chatId]
        st  == checkRateLimit_store(row)
    IN
    /\ rlMemory' = [rlMemory EXCEPT ![chatId] = rec]
    /\ rlEpisode' = [rlEpisode EXCEPT ![chatId] = episodeAfter(chatId)]
    /\ IF memRejects(rec)
       THEN /\ rlLast' = [op |-> "check", chat |-> chatId, fault |-> "none"]
                         @@ checkRateLimit_caught(FALSE, rec.expiresAt - now)
            /\ UNCHANGED rlStore
       ELSE IF fault = "get" \/ (fault = "update" /\ st.write)
       THEN /\ rlLast' = [op |-> "check", chat |-> chatId, fault |-> fault]
                         @@ checkRateLimit_caught(TRUE, 0)
            /\ UNCHANGED rlStore
       ELSE IF ~st.write
       THEN /\ rlLast' = [op |-> "check", chat |-> chatId, fault |-> "none",
                          allowed |-> FALSE, remainingPoints |-> 0,
                          msBeforeNext |-> row.resetTime - now]
            /\ UNCHANGED rlStore
       ELSE /\ rlStore' = [rlStore EXCEPT ![chatId] =
                             [present |-> TRUE, count |-> st.count, resetTime |-> st.resetTime]]
            /\ rlLast' = [op |-> "check", chat |-> chatId, fault |-> "none",
                          allowed |-> TRUE,
                          remainingPoints |-> MaxRequests - rec.points,
                          msBeforeNext |-> rec.expiresAt - now]
    /\ UNCHANGED <<now, cmdVars, sigVars, sessVars, botVars>>

\* checkRateLimit when consume itself rejects with an Error: nothing is
\* counted, in the limiter or in the Store, and the chat's run of counted
\* calls ends.
CheckRateLimitLimiterError(chatId) ==
    /\ rlLast' = [op |-> "check", chat |-> chatId, fault |-> "consume"]
                  @@ checkRateLimit_caught(TRUE, 0)
    /\ rlEpisode' = [rlEpisode EXCEPT ![chatId] = [start |-> 0, calls |-> 0]]
    /\ UNCHANGED <<now, cmdVars, rlMemory, rlStore, sigVars, sessVars, botVars>>

\* DatabaseService.cleanupExpiredRateLimits, run by the service's sweep.
CleanupExpiredRateLimits ==
    /\ rlStore' = [k \in Chats |-> IF rlStore[k].present /\ rlStore[k].resetTime < now
                                   THEN NoRow ELSE rlStore[k]]
    /\ rlLast' = [op |-> "sweep", chat |-> "", fault |-> "none", allowed |-> TRUE,
                  remainingPoints |-> 0, msBeforeNext |-> 0]
    /\ UNCHANGED <<now, cmdVars, rlMemory, rlEpisode, sigVars, sessVars, botVars>>

\* The process restarts: a new RateLimiterService over the same Store.
RestartRL ==
    /\ rlMemory' = [k \in Chats |-> NoRecord]
    /\ rlEpisode' = [k \in Chats |-> [start |-> 0, calls |-> 0]]
    /\ rlLast' = [op |-> "new", chat |-> "", fault |-> "none", allowed |-> TRUE,
                  remainingPoints |-> 0, msBeforeNext |-> 0]
    /\ UNCHANGED <<now, cmdVars, rlStore, sigVars, sessVars, botVars>>

\* Time passes between two calls.
TickRL ==
    /\ now < MaxTime
    /\ now' = now + 1
    /\ rlLast' = [op |-> "tick", chat |-> "", fault |-> "none", allowed |-> TRUE,
                  remainingPoints |-> 0, msBeforeNext |-> 0]
    /\ UNCHANGED <<cmdVars, rlMemory, rlStore, rlEpisode, sigVars, sessVars, botVars>>

\* checkRateLimit as the event loop runs it: a call gives way at each await,
\* and another call on the same RateLimiterService may run in between
\* (processMessage is not awaited by the listener of message_received).
\* rlCalls[i] is where call i stands: "idle", "consumed" (awaiting consume;
\* the limiter has counted the call) or "read" (awaiting getRateLimit; row
\* is what the Store returned).
NoCall == [pc |-> "idle", chat |-> "", rec |-> NoRecord, row |-> NoRow]

\* Up to the first await: consume counts the call in the limiter.
CheckRateLimitBegins(i, chatId) ==
    LET rec == memConsume(rlMemory[chatId]) IN
    /\ rlCalls[i] = NoCall
    /\ rlMemory' = [rlMemory EXCEPT ![chatId] = rec]
    /\ IF memRejects(rec)
       THEN /\ rlLast' = [op |-> "check", chat |-> chatId, fault |-> "none"]
                         @@ checkRateLimit_caught(FALSE, rec.expiresAt - now)
            /\ UNCHANGED rlCalls
       ELSE /\ rlCalls' = [rlCalls EXCEPT ![i] = [pc |-> "consumed", chat |-> chatId,
                                                  rec |-> rec, row |-> NoRow]]
            /\ UNCHANGED rlLast
    /\ UNCHANGED <<now, cmdVars, rlStore, rlEpisode, sigVars, sessVars, whLast, inbound,
                   pipeLast, plugins, aborted, execs, rlAllowed, delayLast, svcVars>>

\* From the first await to the second: getRateLimit reads the row.
CheckRateLimitReads(i) ==
    /\ rlCalls[i].pc = "consumed"
    /\ rlCalls' = [rlCalls EXCEPT ![i] = [@ EXCEPT !.pc = "read",
                                                   !.row = rlStore[rlCalls[i].chat]]]
    /\ UNCHANGED <<now, cmdVars, rlVars, sigVars, sessVars, whLast, inbound, pipeLast,
                   plugins, aborted, execs, rlAllowed, delayLast, svcVars>>

\* From the second await to the return: the branch on the row that was read,
\* updateRateLimit with the count computed from it, and the result.
CheckRateLimitWrites(i) ==
    LET call == rlCalls[i]
        st   == checkRateLimit_store(call.row)
    IN
    /\ call.pc = "read"
    /\ rlCalls' = [rlCalls EXCEPT ![i] = NoCall]
    /\ IF ~st.write
       THEN /\ rlLast' = [op |-> "check", chat |-> call.chat, fault |-> "none",
                          allowed |-> FALSE, remainingPoints |-> 0,
                          msBeforeNext |-> call.row.resetTime - now]
            /\ UNCHANGED <<rlStore, rlAllowed>>
       ELSE /\ rlStore' = [rlStore EXCEPT ![call.chat] =
                             [present |-> TRUE, count |-> st.count, resetTime |-> st.resetTime]]
            /\ rlLast' = [op |-> "check", chat |-> call.chat, fault |-> "none",
                          allowed |-> TRUE,
                          remainingPoints |-> MaxRequests - call.rec.points,
                          msBeforeNext |-> call.rec.expiresAt - now]
            /\ rlAllowed' = [rlAllowed EXCEPT ![call.chat] = @ + 1]
    /\ UNCHANGED <<now, cmdVars, rlMemory, rlEpisode, sigVars, sessVars, whLast, inbound,
                   pipeLast, plugins, aborted, execs, delayLast, svcVars>>

---------------------------------------------------------------------------
(* WebhookService: signatures.  A string is the sequence of its UTF-16     *)
(* code units; createHash('sha256') is SHA-256 (FIPS 180-4) on the UTF-8   *)
(* encoding of the string; a hexadecimal string is the sequence of the     *)
(* values of its digits, NotHex standing for any other character.          *)

\* config.webhookSecret: "abc"
webhookSecret == <<97, 98, 99>>

\* hash.update(string): the UTF-8 encoding of the string from code unit i on.  A
\* surrogate pair is one code point; an unpaired surrogate is encoded as
\* U+FFFD.
RECURSIVE utf8(_, _)
utf8(str, i) ==
    IF i > Len(str) THEN <<>>
    ELSE LET c == str[i] IN
         IF c < 128 THEN <<c>> \o utf8(str, i + 1)
         ELSE IF c < 2048
         THEN <<192 + (c \div 64), 128 + (c % 64)>> \o utf8(str, i + 1)
         ELSE IF /\ c >= 55296 /\ c <= 56319 /\ i < Len(str)
                 /\ str[i + 1] >= 56320 /\ str[i + 1] <= 57343
         THEN LET cp == 65536 + (c - 55296) * 1024 + (str[i + 1] - 56320) IN
              <<240 + (cp \div 262144), 128 + ((cp \div 4096) % 64),
                128 + ((cp \div 64) % 64), 128 + (cp % 64)>> \o utf8(str, i + 2)
         ELSE IF c >= 55296 /\ c <= 57343
         THEN <<239, 191, 189>> \o utf8(str, i + 1)
         ELSE <<224 + (c \div 4096), 128 + ((c \div 64) % 64), 128 + (c % 64)>>
              \o utf8(str, i + 1)

sha256_K ==
    <<
        <<17034, 12184>>, <<28983, 17553>>, <<46528, 64463>>, <<59829, 56229>>,
        <<14678, 49755>>, <<23025, 4593>>, <<37439, 33444>>, <<43804, 24277>>,
        <<55303, 43672>>, <<4739, 23297>>, <<9265, 34238>>, <<21772, 32195>>,
        <<29374, 23924>>, <<32990, 45566>>, <<39900, 1703>>, <<49563, 61812>>,
        <<58523, 27073>>, <<61374, 18310>>, <<4033, 40390>>, <<9228, 41420>>,
        <<11753, 11375>>, <<19060, 33962>>, <<23728, 43484>>, <<30457, 35034>>,
        <<38974, 20818>>, <<43057, 50797>>, <<45059, 10184>>, <<48985, 32711>>,
        <<50912, 3059>>, <<54695, 37191>>, <<1738, 25425>>, <<5161, 10599>>,
        <<10167, 2693>>, <<11803, 8504>>, <<19756, 28156>>, <<21304, 3347>>,
        <<25866, 29524>>, <<30314, 2747>>, <<33218, 51502>>, <<37490, 11397>>,
        <<41663, 59553>>, <<43034, 26187>>, <<49739, 35696>>, <<51052, 20899>>,
        <<53650, 59417>>, <<54937, 1572>>, <<62478, 13701>>, <<4202, 41072>>,
        <<6564, 49430>>, <<7735, 27656>>, <<10056, 30540>>, <<13488, 48309>>,
        <<14620, 3251>>, <<20184, 43594>>, <<23452, 51791>>, <<26670, 28659>>,
        <<29839, 33518>>, <<30885, 25455>>, <<33992, 30740>>, <<36039, 520>>,
        <<37054, 65530>>, <<42064, 27883>>, <<48889, 41975>>, <<50801, 30962>>
    >>

sha256_H0 ==
    <<
        <<27145, 58983>>, <<47975, 44677>>, <<15470, 62322>>, <<42319, 62778>>,
        <<20750, 21119>>, <<39685, 26764>>, <<8067, 55723>>, <<23520, 52505>>
    >>

\* A 32-bit word is the pair <<hi, lo>> of its 16-bit halves, so that no sum
\* leaves the range of the integers.  Bitwise operations on the halves:
RECURSIVE xor16(_, _, _)
xor16(a, b, n) ==
    IF n = 0 THEN 0
    ELSE ((a + b) % 2) + 2 * xor16(a \div 2, b \div 2, n - 1)

RECURSIVE and16(_, _, _)
and16(a, b, n) ==
    IF n = 0 THEN 0
    ELSE ((a % 2) * (b % 2)) + 2 * and16(a \div 2, b \div 2, n - 1)

Xor(v, w) == <<xor16(v[1], w[1], 16), xor16(v[2], w[2], 16)>>
And(v, w) == <<and16(v[1], w[1], 16), and16(v[2], w[2], 16)>>
Not(v)    == <<65535 - v[1], 65535 - v[2]>>

\* Addition modulo 2^32.
Add(v, w) ==
    LET lo == v[2] + w[2]
        hi == v[1] + w[1] + (lo \div 65536)
    IN  <<hi % 65536, lo % 65536>>

RECURSIVE Rotr(_, _)
Rotr(v, n) ==
    IF n >= 16 THEN Rotr(<<v[2], v[1]>>, n - 16)
    ELSE <<(v[1] \div 2^n) + (v[2] % 2^n) * 2^(16 - n),
           (v[2] \div 2^n) + (v[1] % 2^n) * 2^(16 - n)>>

Shr(v, n) ==
    IF n >= 16 THEN <<0, v[1] \div 2^(n - 16)>>
    ELSE <<v[1] \div 2^n, (v[2] \div 2^n) + (v[1] % 2^n) * 2^(16 - n)>>

Ch(e, f, g)  == Xor(And(e, f), And(Not(e), g))
Maj(a, b, c) == Xor(Xor(And(a, b), And(a, c)), And(b, c))
bsig0(v) == Xor(Xor(Rotr(v, 2), Rotr(v, 13)), Rotr(v, 22))
bsig1(v) == Xor(Xor(Rotr(v, 6), Rotr(v, 11)), Rotr(v, 25))
ssig0(v) == Xor(Xor(Rotr(v, 7), Rotr(v, 18)), Shr(v, 3))
ssig1(v) == Xor(Xor(Rotr(v, 17), Rotr(v, 19)), Shr(v, 10))

\* The padded message: 0x80, zeros up to 56 mod 64, the bit length in 8 bytes.
RECURSIVE zeros(_)
zeros(n) == IF n = 0 THEN <<>> ELSE <<0>> \o zeros(n - 1)

sha256_pad(bytes) ==
    LET len  == Len(bytes)
        bits == 8 * len
        z    == (119 - (len % 64)) % 64
    IN  bytes \o <<128>> \o zeros(z) \o
        <<0, 0, 0, 0, (bits \div 16777216) % 256, (bits \div 65536) % 256,
          (bits \div 256) % 256, bits % 256>>

\* The 16 words of block k (from 0) of the padded message.
sha256_block(m, k) ==
    [j \in 1..16 |->
        LET o == 64 * k + 4 * (j - 1) IN
        <<256 * m[o + 1] + m[o + 2], 256 * m[o + 3] + m[o + 4]>>]

RECURSIVE sha256_schedule(_)
sha256_schedule(w) ==
    IF Len(w) = 64 THEN w
    ELSE LET t == Len(w) + 1 IN
         sha256_schedule(Append(w, Add(Add(ssig1(w[t - 2]), w[t - 7]),
                                       Add(ssig0(w[t - 15]), w[t - 16]))))

\* The 64 rounds on the working variables s = <<a, b, c, d, e, f, g, h>>.
RECURSIVE sha256_rounds(_, _, _)
sha256_rounds(s, w, t) ==
    IF t > 64 \/ Len(s) # 8 THEN s
    ELSE LET T1 == Add(Add(Add(Add(s[8], bsig1(s[5])), Ch(s[5], s[6], s[7])),
                           sha256_K[t]), w[t])
             T2 == Add(bsig0(s[1]), Maj(s[1], s[2], s[3]))
         IN  sha256_rounds(<<Add(T1, T2), s[1], s[2], s[3],
                             Add(s[4], T1), s[5], s[6], s[7]>>, w, t + 1)

RECURSIVE sha256_blocks(_, _, _)
sha256_blocks(h, m, k) ==
    IF 64 * k >= Len(m) \/ Len(h) # 8 THEN h
    ELSE LET w == sha256_schedule(sha256_block(m, k))
             s == sha256_rounds(h, w, 1)
         IN  sha256_blocks([i \in 1..8 |-> Add(h[i], s[i])], m, k + 1)

\* createHash('sha256').update(bytes).digest(): the 8 words of the digest.
sha256(bytes) == sha256_blocks(sha256_H0, sha256_pad(bytes), 0)

\* digest('hex'): 64 hexadecimal digits, each a value 0..15.
RECURSIVE hexOfWords(_, _)
hexOfWords(ws, i) ==
    IF i > Len(ws) THEN <<>>
    ELSE LET hi == ws[i][1]
             lo == ws[i][2]
         IN  <<hi \div 4096, (hi \div 256) % 16, (hi \div 16) % 16, hi % 16,
               lo \div 4096, (lo \div 256) % 16, (lo \div 16) % 16, lo % 16>>
             \o hexOfWords(ws, i + 1)

\* A character that is no hexadecimal digit.
NotHex == 16


\* The payloads: the body {"event":"ping"}, the body with "x" appended, the
\* body with one character changed, the test's 'test-payload', the empty
\* string, and strings with a two-byte character, a three-byte character, a
\* surrogate pair and unpaired surrogates.
PingBody  == <<123, 34, 101, 118, 101, 110, 116, 34, 58, 34, 112, 105, 110, 103, 34, 125>>
PingBodyX == PingBody \o <<120>>
PongBody  == <<123, 34, 101, 118, 101, 110, 116, 34, 58, 34, 112, 111, 110, 103, 34, 125>>
TestPayload == <<116, 101, 115, 116, 45, 112, 97, 121, 108, 111, 97, 100>>

\* The body {"event":"broadcast","data":{"message":"m","chatIds":["c"]}}
BroadcastBody ==
    <<123, 34, 101, 118, 101, 110, 116, 34, 58, 34, 98, 114, 111, 97,
      100, 99, 97, 115, 116, 34, 44, 34, 100, 97, 116, 97, 34, 58, 123,
      34, 109, 101, 115, 115, 97, 103, 101, 34, 58, 34, 109, 34, 44, 34,
      99, 104, 97, 116, 73, 100, 115, 34, 58, 91, 34, 99, 34, 93, 125,
      125>>

Payloads ==
    {PingBody, PingBodyX, PongBody, TestPayload, <<>>, <<233>>, <<8364>>,
     <<55357, 56832>>, <<55296>>, <<55297>>, BroadcastBody}

\* createHash('sha256').update(str).digest('hex')
sha256_hex(str) == hexOfWords(sha256(utf8(str, 1)), 1)

\* The digest of payload + webhookSecret for each payload, computed once.
signatures == [payload \in Payloads |-> sha256_hex(payload \o webhookSecret)]

\* A signature that leaves the payload out of the digest.
generateSignature_secretOnly(payload) == signatures[<<>>]

\* generateSignature(payload): sha256 of payload + webhookSecret, in hex.
generateSignature(payload) == signatures[payload]

\* createHmacSignature(body): the same digest as generateSignature.
createHmacSignature(body) == signatures[body]

\* Buffer.from(str, 'hex'): one byte per pair of digits, up to the first pair
\* that holds another character; a last unpaired digit is dropped.
RECURSIVE bufferFromHex(_, _)
bufferFromHex(str, i) ==
    IF i + 1 > Len(str) THEN <<>>
    ELSE IF str[i] >= NotHex \/ str[i + 1] >= NotHex THEN <<>>
    ELSE <<16 * str[i] + str[i + 1]>> \o bufferFromHex(str, i + 2)

\* timingSafeEqual on two buffers of one length.
timingSafeEqual(a, b) == \A i \in 1..Len(a) : a[i] = b[i]

verifySignature(payload, signature) ==
    LET sigBuffer      == bufferFromHex(signature, 1)
        expectedBuffer == bufferFromHex(generateSignature(payload), 1)
    IN  IF Len(sigBuffer) # Len(expectedBuffer) THEN FALSE
        ELSE timingSafeEqual(sigBuffer, expectedBuffer)

verifyHmacSignature(body, signature) ==
    LET sigBuffer      == bufferFromHex(signature, 1)
        expectedBuffer == bufferFromHex(createHmacSignature(body), 1)
    IN  IF Len(sigBuffer) # Len(expectedBuffer) THEN FALSE
        ELSE timingSafeEqual(sigBuffer, expectedBuffer)

\* No payload: the signature at hand was not generated by the service.
NoPayload == <<0 - 1>>

\* The test's 'invalid-signature': of its characters only a, d and e are digits.
InvalidSignature ==
    <<NotHex, NotHex, NotHex, 10, NotHex, NotHex, 13, NotHex, NotHex, NotHex,
      NotHex, NotHex, 10, NotHex, NotHex, NotHex, 14>>

GenerateSignature(payload) ==
    /\ sigSigned' = payload
    /\ sigSignature' = generateSignature(payload)
    /\ sigLast' = [op |-> "generateSignature", payload |-> payload, result |-> TRUE]
    /\ UNCHANGED <<now, cmdVars, rlVars, sessVars, botVars>>

CreateHmacSignature(body) ==
    /\ sigSigned' = body
    /\ sigSignature' = createHmacSignature(body)
    /\ sigLast' = [op |-> "createHmacSignature", payload |-> body, result |-> TRUE]
    /\ UNCHANGED <<now, cmdVars, rlVars, sessVars, botVars>>

\* A caller presents a signature the service did not generate.
PresentInvalidSignature ==
    /\ sigSigned' = NoPayload
    /\ sigSignature' = InvalidSignature
    /\ sigLast' = [op |-> "present", payload |-> NoPayload, result |-> TRUE]
    /\ UNCHANGED <<now, cmdVars, rlVars, sessVars, botVars>>

VerifySignature(payload) ==
    /\ sigLast' = [op |-> "verifySignature", payload |-> payload,
                   result |-> verifySignature(payload, sigSignature)]
    /\ UNCHANGED <<now, cmdVars, rlVars, sessVars, botVars, sigSigned, sigSignature>>

VerifyHmacSignature(body) ==
    /\ sigLast' = [op |-> "verifyHmacSignature", payload |-> body,
                   result |-> verifyHmacSignature(body, sigSignature)]
    /\ UNCHANGED <<now, cmdVars, rlVars, sessVars, botVars, sigSigned, sigSignature>>

---------------------------------------------------------------------------
(* The POST /webhook handler of the bot's HTTP server: it reads the body   *)
(* as text and the x-webhook-signature header, verifies the signature,     *)
(* parses the body and processes the event.                                *)

\* config.webhookTimeout, scaled down.
WebhookTimeout == 1

\* JSON.parse(body).event for the bodies that are JSON texts; JSON.parse
\* throws a SyntaxError on the others.
jsonEvent(body) ==
    IF body = PingBody THEN "ping"
    ELSE IF body = PongBody THEN "pong"
    ELSE IF body = BroadcastBody THEN "broadcast"
    ELSE "SyntaxError"

\* The bodies of the requests: two events, a body that is no JSON text and
\* a text that is no JSON at all.
HookBodies == {PingBody, BroadcastBody, PingBodyX, TestPayload}

\* A handler that rejects no request.
webhookRejects_never(body, signature) == FALSE

\* The handler's test of the signature: it rejects the request when
\* verifyHmacSignature(body, signature) is false.
webhookRejects(body, signature) == ~verifyHmacSignature(body, signature)

\* processWebhookEvent(payload): the event it ran on and the sendMessage
\* calls it made.  'broadcast' sends the message to each chat id (one here);
\* an event without a case is logged as unknown.
processWebhookEvent(event) ==
    [ran |-> event, sends |-> IF event = "broadcast" THEN 1 ELSE 0]

\* POST /webhook with the body, the signature at hand in x-webhook-signature
\* and a timestamp in x-webhook-timestamp (from older than webhookTimeout up
\* to the present); a sendMessage of a broadcast returns or throws.
PostWebhook(body, timestamp, sendThrows) ==
    LET request == [op |-> "webhook", body |-> body, signature |-> sigSignature,
                    timestamp |-> timestamp]
    IN
    /\ whLast' =
          IF webhookRejects(body, sigSignature)
          THEN request @@ [ran |-> "none", sends |-> 0, response |-> "Invalid signature"]
          ELSE IF jsonEvent(body) = "SyntaxError"
          THEN request @@ [ran |-> "none", sends |-> 0,
                           response |-> "Webhook processing failed"]
          ELSE request @@ processWebhookEvent(jsonEvent(body)) @@
               [response |-> IF jsonEvent(body) = "broadcast" /\ sendThrows
                             THEN "Webhook processing failed"
                             ELSE "Webhook processed"]
    /\ UNCHANGED <<now, cmdVars, rlVars, sigVars, sessVars, inbound, pipeLast, plugins, aborted, execs, auxVars>>

---------------------------------------------------------------------------
(* WhatsAppClient: the session manager over the whatsapp-web.js client,    *)
(* with the bot's listener that stops the bot when the reconnection        *)
(* attempts are used up.  The client is "new" (constructed), "opening"     *)
(* (initialize() under way), "qr" (a QR code is shown), "ready"            *)
(* (connected), "closed" (disconnected or failed to open) or "destroyed".  *)

\* config.maxReconnectAttempts, scaled down.
MaxReconnectAttempts == 2

\* The reconnection timers, and the reconnect() calls, followed at one time.
MaxTimers == 2

Min(a, b) == IF a < b THEN a ELSE b

\* scheduleReconnection() without the test of the reconnecting flag.
scheduleReconnection_always ==
    IF reconnectAttempts >= MaxReconnectAttempts THEN "exhausted" ELSE "scheduled"

\* scheduleReconnection(): what the call does in the current state.
scheduleReconnection ==
    IF reconnecting THEN "noop"
    ELSE IF reconnectAttempts >= MaxReconnectAttempts THEN "exhausted"
    ELSE "scheduled"

\* The end of a handler that called scheduleReconnection with outcome kind
\* ("none": it made no call) or emitted max_reconnect_attempts_reached itself
\* ("exhausted").  The bot's listener of that event calls stop(), which runs
\* destroy(): clearQRRefresh, stopHealthCheck, client.destroy().
Reconnection(kind, clientAfter, healthAfter) ==
    /\ kind = "scheduled" => reconnectTimers < MaxTimers
    /\ reconnecting' = (reconnecting \/ kind = "scheduled")
    /\ reconnectTimers' = reconnectTimers + (IF kind = "scheduled" THEN 1 ELSE 0)
    /\ exhausted' = IF kind = "exhausted" THEN Min(exhausted + 1, 2) ELSE exhausted
    /\ client' = IF kind = "exhausted" THEN "destroyed" ELSE clientAfter
    /\ healthCheckTimer' = IF kind = "exhausted" THEN FALSE ELSE healthAfter
    /\ qrRefreshTimer' = IF kind = "exhausted" THEN FALSE ELSE qrRefreshTimer
    /\ running' = IF kind = "exhausted" THEN FALSE ELSE running
    /\ failed' = (failed \/ kind = "exhausted")

\* What sessLast records of a call or event that sent nothing.
Did(op) == [op |-> op, state |-> client, handed |-> FALSE, result |-> "ok"]

\* start() calls initialize(): on the new client, or again after a stop().
Initialize ==
    /\ client \in {"new", "destroyed"} /\ ~startInit
    /\ client' = "opening"
    /\ startInit' = TRUE
    /\ failed' = FALSE
    /\ sessLast' = Did("initialize")
    /\ UNCHANGED <<now, cmdVars, rlVars, sigVars, botVars, running, reconnectAttempts, reconnecting,
                   qrRefreshTimer, healthCheckTimer, reconnectTimers, reconnectInits,
                   exhausted, failedRun>>

\* start()'s initialize() resolves (ok) or rejects; a rejection makes start() throw.
InitializeSettles(ok) ==
    /\ startInit
    /\ ok \/ client # "ready"
    /\ startInit' = FALSE
    /\ client' = IF ok THEN client ELSE "closed"
    /\ running' = (running \/ ok)
    /\ sessLast' = Did("initialized")
    /\ UNCHANGED <<now, cmdVars, rlVars, sigVars, botVars, failed, reconnectAttempts, reconnecting,
                   qrRefreshTimer, healthCheckTimer, reconnectTimers, reconnectInits,
                   exhausted, failedRun>>

\* The 'qr' event: scheduleQRRefresh replaces the pending timeout.
ClientQr ==
    /\ client \in {"opening", "qr"}
    /\ client' = "qr"
    /\ qrRefreshTimer' = TRUE
    /\ sessLast' = Did("qr")
    /\ UNCHANGED <<now, cmdVars, rlVars, sigVars, botVars, running, failed, reconnectAttempts, reconnecting,
                   healthCheckTimer, reconnectTimers, reconnectInits, startInit,
                   exhausted, failedRun>>

\* The QR refresh timeout fires: it emits qr_refresh, once.
QrRefreshFires ==
    /\ qrRefreshTimer
    /\ qrRefreshTimer' = FALSE
    /\ sessLast' = Did("qr_refresh")
    /\ UNCHANGED <<now, cmdVars, rlVars, sigVars, botVars, running, failed, client, reconnectAttempts, reconnecting,
                   healthCheckTimer, reconnectTimers, reconnectInits, startInit,
                   exhausted, failedRun>>

\* The 'ready' event.
ClientReady ==
    /\ client \in {"opening", "qr"}
    /\ client' = "ready"
    /\ reconnectAttempts' = 0
    /\ reconnecting' = FALSE
    /\ qrRefreshTimer' = FALSE
    /\ healthCheckTimer' = TRUE
    /\ exhausted' = 0
    /\ failedRun' = 0
    /\ sessLast' = Did("ready")
    /\ UNCHANGED <<now, cmdVars, rlVars, sigVars, botVars, running, failed, reconnectTimers, reconnectInits,
                   startInit>>

\* The 'disconnected' event with its reason.
ClientDisconnected(reason) ==
    /\ client = "ready"
    /\ Reconnection(IF reason # "NAVIGATION" THEN scheduleReconnection ELSE "none",
                    "closed", FALSE)
    /\ sessLast' = [Did("disconnected") EXCEPT
                      !.result = IF reason # "NAVIGATION" THEN scheduleReconnection ELSE "none"]
    /\ UNCHANGED <<now, cmdVars, rlVars, sigVars, botVars, reconnectAttempts, reconnectInits,
                   startInit, failedRun>>

\* The health-check interval fires: performHealthCheck, whose getState()
\* answers CONNECTED, answers another state, or throws.
PerformHealthCheck(probe) ==
    /\ healthCheckTimer
    /\ probe = "CONNECTED" => client = "ready"
    /\ Reconnection(IF /\ probe = "throws"
                       /\ reconnectAttempts < MaxReconnectAttempts
                       /\ ~reconnecting
                    THEN scheduleReconnection ELSE "none",
                    client, healthCheckTimer)
    /\ sessLast' = [op |-> "health_check", state |-> client, handed |-> FALSE,
                    result |-> IF probe = "CONNECTED" THEN "ok" ELSE "health_check_failed"]
    /\ UNCHANGED <<now, cmdVars, rlVars, sigVars, botVars, reconnectAttempts, reconnectInits,
                   startInit, failedRun>>

\* calculateReconnectDelay() with config.reconnectInterval = baseDelay and
\* reconnectAttempts = attempts, Math.random() having returned random / 10:
\* the delay in ms.  The products are whole numbers for the intervals used.
calculateReconnectDelay(baseDelay, attempts, random) ==
    LET maxDelay == baseDelay * 2^attempts
        jitter   == (random * maxDelay) \div 100
    IN  Min(maxDelay, 30000) + jitter

\* scheduleReconnection computes the delay of its timer.
CalculateReconnectDelay(baseDelay, attempts, random) ==
    /\ delayLast' = [op |-> "delay", baseDelay |-> baseDelay, attempts |-> attempts,
                     random |-> random,
                     delay |-> calculateReconnectDelay(baseDelay, attempts, random)]
    /\ UNCHANGED <<now, cmdVars, rlVars, sigVars, sessVars, whLast, inbound, pipeLast,
                   plugins, aborted, execs, rlCalls, rlAllowed, svcVars>>

\* A reconnection timer fires: reconnect() counts the attempt and awaits
\* initialize().  On a client that still counts as ready (the reconnection
\* came from a health check that threw) initialize() starts the client anew
\* or leaves the running session as it is.
ReconnectTimerFires ==
    /\ reconnectTimers > 0
    /\ reconnectAttempts <= MaxReconnectAttempts
    /\ reconnectInits < MaxTimers
    /\ reconnectTimers' = reconnectTimers - 1
    /\ reconnectAttempts' = reconnectAttempts + 1
    /\ reconnectInits' = reconnectInits + 1
    /\ client' \in IF client \in {"new", "closed", "destroyed"} THEN {"opening"}
                   ELSE IF client = "ready" THEN {"opening", "ready"}
                   ELSE {client}
    /\ sessLast' = Did("reconnect")
    /\ UNCHANGED <<now, cmdVars, rlVars, sigVars, botVars, running, failed, reconnecting, qrRefreshTimer,
                   healthCheckTimer, startInit, exhausted, failedRun>>

\* reconnect()'s initialize() resolves (ok), or rejects and reconnect() handles
\* the failure.
ReconnectSettles(ok) ==
    /\ reconnectInits > 0
    /\ ok \/ client # "ready"
    /\ reconnectInits' = reconnectInits - 1
    /\ IF ok
       THEN /\ sessLast' = Did("reconnected")
            /\ UNCHANGED <<client, reconnecting, reconnectTimers, exhausted,
                           healthCheckTimer, qrRefreshTimer, failedRun, running, failed>>
       ELSE /\ Reconnection(IF reconnectAttempts < MaxReconnectAttempts
                            THEN scheduleReconnection ELSE "exhausted",
                            "closed", healthCheckTimer)
            /\ failedRun' = Min(failedRun + 1, MaxReconnectAttempts + 1)
            /\ sessLast' = [op |-> "reconnect_failed", state |-> client,
                            handed |-> FALSE, result |-> "reconnect_failed"]
    /\ UNCHANGED <<now, cmdVars, rlVars, sigVars, botVars, reconnectAttempts, startInit>>

\* stop()'s test `!this.isRunning`: isRunning is the method of the class,
\* not the field running, and a function is truthy whatever running is.
stop_returnsEarly == FALSE

\* stop() from outside (a signal, a test's afterEach): unless it returns
\* early, running is cleared, the client is destroyed (destroy() clears the
\* QR refresh and the health check), middlewareManager.cleanup() destroys the
\* enabled plugins and empties the middleware list, and the database is
\* closed.
Stop ==
    /\ ~stop_returnsEarly
    /\ client' = "destroyed"
    /\ qrRefreshTimer' = FALSE
    /\ healthCheckTimer' = FALSE
    /\ running' = FALSE
    /\ sessLast' = Did("destroy")
    /\ \E destroyOk \in BOOLEAN :
          plugins' = [p \in DOMAIN plugins |->
                        IF plugins[p].registered /\ plugins[p].enabled
                        THEN [plugins[p] EXCEPT !.destroy = IF destroyOk THEN "ok" ELSE "failed"]
                        ELSE plugins[p]]
    /\ middlewares' = <<>>
    /\ stopLast' = [op |-> "stop", wasRunning |-> running, destroyed |-> TRUE,
                    cleaned |-> TRUE, closed |-> TRUE]
    /\ UNCHANGED <<now, cmdVars, rlVars, sigVars, failed, reconnectAttempts, reconnecting,
                   reconnectTimers, reconnectInits, startInit, exhausted, failedRun,
                   whLast, inbound, pipeLast, aborted, execs, rlCalls, rlAllowed, delayLast,
                   commandStats, mwLast>>

\* sendMessage(chatId, message): the text goes to client.sendMessage, which
\* returns the sent message or throws.
SendMessage(clientThrows) ==
    /\ sessLast' = [op |-> "send", state |-> client, handed |-> TRUE,
                    result |-> IF clientThrows THEN "client error" ELSE "sent"]
    /\ UNCHANGED <<now, cmdVars, rlVars, sigVars, botVars, running, failed, client, reconnectAttempts, reconnecting,
                   qrRefreshTimer, healthCheckTimer, reconnectTimers, reconnectInits,
                   startInit, exhausted, failedRun>>

---------------------------------------------------------------------------
(* Inbound messages.  The client's 'message' and 'message_create' events   *)
(* go to handleMessage, which saves the conversation record and emits      *)
(* message_received; the bot's listener of that event runs processMessage, *)
(* which runs the middleware chain: rateLimit, logging, errorHandler,      *)
(* commandProcessor and then the middleware of a plugin, if one is         *)
(* registered.                                                             *)

Msgs == {"m1", "m2"}

\* A message the client has not delivered: save is the saveConversation
\* call ("none": not made, "pending", "ok", "failed"), handed says that
\* message_received was emitted for it, pipe is how processMessage ended
\* ("none": not run, "completed", "caught": its catch block logged a
\* failure, "rejected").
NoMessage == [event |-> "none", save |-> "none", handed |-> FALSE, pipe |-> "none"]

\* A handleMessage that emits message_received without saving.
handleMessage_emitFirst(msg, saved) == [msg EXCEPT !.handed = TRUE]

\* handleMessage(message) up to its await (saved = "pending": it has called
\* saveConversation) and from the await on (saved = "ok": it emits
\* message_received; saved = "failed": it logs the failure).
handleMessage(msg, saved) ==
    [msg EXCEPT !.save = saved, !.handed = (saved = "ok")]

\* The client emits 'message' (a received message) or 'message_create'
\* (which the service takes up when the message is the account's own).
ClientMessage(m, event, fromMe) ==
    /\ inbound[m].event = "none"
    /\ event = "message_create" => fromMe
    /\ inbound' = [inbound EXCEPT ![m] = handleMessage([@ EXCEPT !.event = event], "pending")]
    /\ UNCHANGED <<now, cmdVars, rlVars, sigVars, sessVars, whLast, pipeLast, plugins, aborted, execs, auxVars>>

\* saveConversation resolves or rejects.
SaveConversationSettles(m, ok) ==
    /\ inbound[m].save = "pending"
    /\ inbound' = [inbound EXCEPT ![m] = handleMessage(@, IF ok THEN "ok" ELSE "failed")]
    /\ UNCHANGED <<now, cmdVars, rlVars, sigVars, sessVars, whLast, pipeLast, plugins, aborted, execs, auxVars>>

\* What happens to one message in the chain: checkRateLimit allows, denies
\* or throws; the logging stage throws before or after its next(), or not;
\* executeCommand returns true or false, or throws; the plugin's middleware
\* is absent ("none"), calls next() ("ok") or throws; the reply with the
\* apology throws or not.
PipeInputs ==
    [rl : {"allowed", "denied", "throws"}, logging : {"no", "before", "after"},
     cmd : {"true", "false", "throws"}, tail : {"none", "ok", "throws"},
     replyThrows : BOOLEAN]

\* MiddlewareManager.execute: next() runs the middleware at the shared index
\* and moves the index on.  A run c of the chain holds the index, whether the
\* call at hand threw, the middlewares run (ran; in the order of their
\* invocation: order), those that have called next() (proceeded), the
\* apology replies attempted and whether the errorHandler middleware itself
\* threw.
RECURSIVE next(_, _)

\* A rate-limit middleware that calls next() whatever the check returned.
rateLimit_passes(c, in) ==
    next([c EXCEPT !.proceeded = @ \cup {"rateLimit"}], in)

\* builtinMiddlewares.rateLimit: a denial ends the chain; otherwise next(),
\* and once more from the catch block when the check or next() threw.
rateLimit(c, in) ==
    IF in.rl = "denied" THEN c
    ELSE LET a == IF in.rl = "throws" THEN [c EXCEPT !.threw = TRUE]
                  ELSE next([c EXCEPT !.proceeded = @ \cup {"rateLimit"}], in)
         IN  IF a.threw
             THEN next([a EXCEPT !.threw = FALSE, !.proceeded = @ \cup {"rateLimit"}], in)
             ELSE a

\* builtinMiddlewares.logging
logging(c, in) ==
    IF in.logging = "before" THEN [c EXCEPT !.threw = TRUE]
    ELSE LET a == next([c EXCEPT !.proceeded = @ \cup {"logging"}], in)
         IN  IF ~a.threw /\ in.logging = "after" THEN [a EXCEPT !.threw = TRUE] ELSE a

\* An error boundary that lets the failure of its reply escape.
errorHandler_replyEscapes(c, in) ==
    LET a == next([c EXCEPT !.proceeded = @ \cup {"errorHandler"}], in)
    IN  IF a.threw THEN [a EXCEPT !.threw = in.replyThrows, !.replies = @ + 1] ELSE a

\* builtinMiddlewares.errorHandler: a failure of next() is logged and
\* answered with one reply, whose own failure is logged.
errorHandler(c, in) ==
    LET a == next([c EXCEPT !.proceeded = @ \cup {"errorHandler"}], in)
    IN  IF a.threw THEN [a EXCEPT !.threw = FALSE, !.replies = @ + 1] ELSE a

\* builtinMiddlewares.commandProcessor: an executed command ends the chain;
\* a failure of executeCommand is logged; otherwise next().
commandProcessor(c, in) ==
    IF in.cmd = "true" THEN c
    ELSE next([c EXCEPT !.proceeded = @ \cup {"commandProcessor"}], in)

\* plugin.middleware, registered after the builtin ones.
pluginMiddleware(c, in) ==
    IF in.tail = "throws" THEN [c EXCEPT !.threw = TRUE]
    ELSE next([c EXCEPT !.proceeded = @ \cup {"plugin"}], in)

next(c, in) ==
    IF c.index >= (IF in.tail = "none" THEN 4 ELSE 5) THEN c
    ELSE LET name == <<"rateLimit", "logging", "errorHandler", "commandProcessor",
                       "plugin">>[c.index + 1]
             d == [c EXCEPT !.index = @ + 1, !.ran = @ \cup {name},
                            !.order = Append(@, name)]
         IN  IF name = "rateLimit" THEN rateLimit(d, in)
             ELSE IF name = "logging" THEN logging(d, in)
             ELSE IF name = "errorHandler"
             THEN LET r == errorHandler(d, in) IN [r EXCEPT !.escaped = r.threw]
             ELSE IF name = "commandProcessor" THEN commandProcessor(d, in)
             ELSE pluginMiddleware(d, in)

\* A processMessage that does not catch.
processMessage_uncaught(r) == r.threw

\* processMessage(message) rejects: never, its catch block logs what the
\* chain r threw.
processMessage(r) == FALSE

\* The listener of message_received runs processMessage on a message handed
\* to the pipeline.
ProcessMessage(m, in) ==
    LET r == next([index |-> 0, threw |-> FALSE, ran |-> {}, order |-> <<>>,
                   proceeded |-> {}, replies |-> 0, escaped |-> FALSE], in)
    IN
    /\ inbound[m].handed
    /\ inbound[m].pipe = "none"
    /\ inbound' = [inbound EXCEPT ![m].pipe = IF processMessage(r) THEN "rejected"
                                              ELSE IF r.threw THEN "caught"
                                              ELSE "completed"]
    /\ pipeLast' = r @@ [msg |-> m, in |-> in, rejected |-> processMessage(r)]
    /\ UNCHANGED <<now, cmdVars, rlVars, sigVars, sessVars, whLast, plugins, aborted, execs, auxVars>>

---------------------------------------------------------------------------
(* Plugins of the MiddlewareManager.  registerPlugin and unregisterPlugin  *)
(* call initializePlugin and destroyPlugin without awaiting them; the      *)
(* process has an unhandledRejection handler that exits.                   *)

Plugins == {"alpha", "beta", "gamma"}

\* plugins.get(name) === undefined.  Of a registered plugin: enabled, the
\* state of its initialize() ("none": not called, "pending", "ok",
\* "failed") and how its last destroy() ended.
NoPlugin == [registered |-> FALSE, enabled |-> FALSE, init |-> "none", destroy |-> "none"]

\* registerBuiltinMiddleware: the middlewares the constructor registers.
builtinMiddlewares == <<"rateLimit", "logging", "errorHandler", "commandProcessor">>

\* registerPlugin(plugin) of a plugin with name, initialize, destroy and a
\* middleware: the middleware is pushed whatever plugin.enabled is.
RegisterPlugin(p, enabled) ==
    /\ ~aborted
    /\ ~plugins[p].registered
    /\ plugins' = [plugins EXCEPT ![p] = [@ EXCEPT !.registered = TRUE, !.enabled = enabled,
                                                   !.init = IF enabled THEN "pending" ELSE "none"]]
    /\ middlewares' = Append(middlewares, p)
    /\ UNCHANGED <<now, cmdVars, rlVars, sigVars, sessVars, whLast, inbound, pipeLast, aborted,
                   execs, rlCalls, rlAllowed, delayLast, commandStats, mwLast, stopLast>>

\* enablePlugin(pluginName) of a registered plugin: a plugin that is not
\* enabled is marked enabled and its initialize() is called, not awaited.
EnablePlugin(p) ==
    /\ ~aborted
    /\ plugins[p].registered
    /\ plugins' = IF plugins[p].enabled THEN plugins
                  ELSE [plugins EXCEPT ![p].enabled = TRUE, ![p].init = "pending"]
    /\ UNCHANGED <<now, cmdVars, rlVars, sigVars, sessVars, whLast, inbound, pipeLast, aborted,
                   execs, auxVars>>

\* disablePlugin(pluginName) of a registered plugin: an enabled plugin is
\* marked disabled and destroyPlugin is called, whose catch block logs a
\* failure of plugin.destroy().
DisablePlugin(p, destroyOk) ==
    /\ ~aborted
    /\ plugins[p].registered
    /\ plugins' = IF ~plugins[p].enabled THEN plugins
                  ELSE [plugins EXCEPT ![p].enabled = FALSE,
                                       ![p].destroy = IF destroyOk THEN "ok" ELSE "failed"]
    /\ UNCHANGED <<now, cmdVars, rlVars, sigVars, sessVars, whLast, inbound, pipeLast, aborted,
                   execs, auxVars>>

\* execute(context): next() runs this.middlewares[index++], from position i
\* of list on; the builtin middlewares let the event through, and a
\* plugin's middleware calls next() or not (callsNext).  The result is the
\* set of plugins whose middleware ran.
RECURSIVE execute(_, _, _)
execute(list, i, callsNext) ==
    IF i > Len(list) THEN {}
    ELSE IF list[i] \notin Plugins THEN execute(list, i + 1, callsNext)
    ELSE {list[i]} \cup (IF list[i] \in callsNext THEN execute(list, i + 1, callsNext)
                         ELSE {})

\* The chain is run for an inbound event that the builtin middlewares let
\* through.
ExecuteMiddlewares(callsNext) ==
    /\ ~aborted
    /\ mwLast' = [op |-> "execute", ran |-> execute(middlewares, 1, callsNext),
                  disabled |-> {p \in Plugins : plugins[p].registered /\ ~plugins[p].enabled}]
    /\ UNCHANGED <<now, cmdVars, rlVars, sigVars, sessVars, whLast, inbound, pipeLast, plugins,
                   aborted, execs, rlCalls, rlAllowed, delayLast, commandStats, middlewares,
                   stopLast>>

\* plugin.initialize() resolves or rejects.  initializePlugin logs a
\* rejection and throws it again; no caller awaits or catches the promise of
\* initializePlugin, so the rejection is unhandled and the process's handler
\* exits.
InitializePluginSettles(p, ok) ==
    /\ ~aborted
    /\ plugins[p].init = "pending"
    /\ plugins' = [plugins EXCEPT ![p].init = IF ok THEN "ok" ELSE "failed"]
    /\ aborted' = ~ok
    /\ UNCHANGED <<now, cmdVars, rlVars, sigVars, sessVars, whLast, inbound, pipeLast, execs, auxVars>>

\* unregisterPlugin(name): destroyPlugin, whose catch block logs a failure of
\* plugin.destroy(), then the plugin is removed.
UnregisterPlugin(p, destroyOk) ==
    /\ ~aborted
    /\ plugins[p].registered
    /\ plugins' = [plugins EXCEPT ![p] = [NoPlugin EXCEPT !.init = plugins[p].init,
                                           !.destroy = IF destroyOk THEN "ok" ELSE "failed"]]
    /\ middlewares' = SelectSeq(middlewares, LAMBDA name : name # p)
    /\ UNCHANGED <<now, cmdVars, rlVars, sigVars, sessVars, whLast, inbound, pipeLast, aborted,
                   execs, rlCalls, rlAllowed, delayLast, commandStats, mwLast, stopLast>>

---------------------------------------------------------------------------
(* The initial state and the specifications, one per component.            *)

InitCmd ==
    /\ commands = [k \in Keys |-> NoCommand]
    /\ commandAliases = [k \in Keys |-> NoAlias]
    /\ commandCooldowns = [k \in Keys |-> NoBucket]
    /\ lastOp = Call("new", "", "")
    /\ lastTrue = [k \in Keys |-> [c \in Chats |-> 0]]

InitRL ==
    /\ rlMemory = [k \in Chats |-> NoRecord]
    /\ rlStore = [k \in Chats |-> NoRow]
    /\ rlLast = [op |-> "new", chat |-> "", fault |-> "none", allowed |-> TRUE,
                 remainingPoints |-> 0, msBeforeNext |-> 0]
    /\ rlEpisode = [k \in Chats |-> [start |-> 0, calls |-> 0]]

InitSig ==
    /\ sigSigned = NoPayload
    /\ sigSignature = <<>>
    /\ sigLast = [op |-> "new", payload |-> NoPayload, result |-> TRUE]
    /\ whLast = [op |-> "new", body |-> <<>>, signature |-> <<>>, timestamp |-> 0,
                 ran |-> "none", sends |-> 0, response |-> ""]

InitSession ==
    /\ client = "new"
    /\ reconnectAttempts = 0
    /\ reconnecting = FALSE
    /\ qrRefreshTimer = FALSE
    /\ healthCheckTimer = FALSE
    /\ reconnectTimers = 0
    /\ reconnectInits = 0
    /\ startInit = FALSE
    /\ exhausted = 0
    /\ failedRun = 0
    /\ sessLast = [op |-> "new", state |-> "new", handed |-> FALSE, result |-> "ok"]
    /\ running = FALSE
    /\ failed = FALSE

Init ==
    /\ now = 1
    /\ InitCmd
    /\ InitRL
    /\ InitSig
    /\ InitSession
    /\ inbound = [m \in Msgs |-> NoMessage]
    /\ pipeLast = [msg |-> "none"]
    /\ plugins = [p \in Plugins |-> NoPlugin]
    /\ aborted = FALSE
    /\ execs = [i \in 1..2 |-> NoCommand]
    /\ rlCalls = [i \in 1..2 |-> NoCall]
    /\ rlAllowed = [k \in Chats |-> 0]
    /\ delayLast = [op |-> "new", baseDelay |-> 0, attempts |-> 0, random |-> 0, delay |-> 0]
    /\ commandStats = [k \in Keys |-> 0]
    /\ middlewares = builtinMiddlewares
    /\ mwLast = [op |-> "new", ran |-> {}, disabled |-> {}]
    /\ stopLast = [op |-> "new", wasRunning |-> FALSE, destroyed |-> FALSE,
                   cleaned |-> FALSE, closed |-> FALSE]

NextCmd ==
    \/ \E command \in CommandInputs : RegisterCommand(command)
    \/ \E name \in UnregisterTokens : UnregisterCommand(name)
    \/ \E token \in DispatchTokens, chatId \in Chats, handlerThrows \in BOOLEAN :
          ExecuteCommand(TRUE, token, chatId, handlerThrows)
    \/ \E chatId \in Chats : ExecuteCommand(FALSE, "ping", chatId, FALSE)
    \/ CleanupCooldowns
    \/ TickCmd

SpecCmd == Init /\ [][NextCmd]_vars

\* The two paths to a command's handler: messages of the chats and 'command'
\* events of the webhook.
NextCmdPaths ==
    \/ \E command \in {cmdPing, cmdStatus, cmdNegCooldown} : RegisterCommand(command)
    \/ \E token \in DispatchTokens, chatId \in Chats, handlerThrows \in BOOLEAN :
          ExecuteCommand(TRUE, token, chatId, handlerThrows)
    \/ \E token \in DispatchTokens, chatId \in Chats, handlerThrows \in BOOLEAN :
          WebhookCommand(token, chatId, handlerThrows)
    \/ TickCmd

SpecCmdPaths == Init /\ [][NextCmdPaths]_vars

\* Messages with commands processed at the same time, and commands
\* registered and unregistered while their handlers are awaited.
NextConcurrent ==
    \/ \E command \in {cmdPing, cmdStatus} : RegisterCommand(command)
    \/ \E name \in {"ping", "status"} : UnregisterCommand(name)
    \/ \E i \in 1..2, token \in DispatchTokens, chatId \in Chats :
          ExecuteCommandBegins(i, token, chatId)
    \/ \E i \in 1..2, handlerThrows \in BOOLEAN : ExecuteCommandEnds(i, handlerThrows)
    \/ TickCmd

SpecConcurrent == Init /\ [][NextConcurrent]_vars

NextRL ==
    \/ \E chatId \in Chats, fault \in StoreFaults : CheckRateLimit(chatId, fault)
    \/ CleanupExpiredRateLimits
    \/ RestartRL
    \/ TickRL

SpecRL == Init /\ [][NextRL]_vars

\* The rate limiter with a failing counting mechanism: the Store's faults and
\* the limiter's.
NextRLFaults ==
    \/ \E chatId \in Chats, fault \in StoreFaults : CheckRateLimit(chatId, fault)
    \/ \E chatId \in Chats : CheckRateLimitLimiterError(chatId)
    \/ TickRL

SpecRLFaults == Init /\ [][NextRLFaults]_vars

\* Two checkRateLimit calls at a time, within one window (no time passes).
NextRLCalls ==
    \/ \E i \in 1..2, chatId \in Chats : CheckRateLimitBegins(i, chatId)
    \/ \E i \in 1..2 : CheckRateLimitReads(i)
    \/ \E i \in 1..2 : CheckRateLimitWrites(i)

SpecRLCalls == Init /\ [][NextRLCalls]_vars

NextSig ==
    \/ \E payload \in Payloads : GenerateSignature(payload)
    \/ \E body \in Payloads : CreateHmacSignature(body)
    \/ PresentInvalidSignature
    \/ \E payload \in Payloads : VerifySignature(payload)
    \/ \E body \in Payloads : VerifyHmacSignature(body)

SpecSig == Init /\ [][NextSig]_vars

\* The webhook channel: senders sign bodies, or present a signature of their
\* own, and post requests.
NextHook ==
    \/ \E body \in HookBodies : CreateHmacSignature(body)
    \/ PresentInvalidSignature
    \/ \E body \in HookBodies, timestamp \in (now - WebhookTimeout - 1)..now,
          sendThrows \in BOOLEAN :
          PostWebhook(body, timestamp, sendThrows)

SpecHook == Init /\ [][NextHook]_vars

\* The inbound message path.
NextInbound ==
    \/ \E m \in Msgs, event \in {"message", "message_create"}, fromMe \in BOOLEAN :
          ClientMessage(m, event, fromMe)
    \/ \E m \in Msgs, ok \in BOOLEAN : SaveConversationSettles(m, ok)
    \/ \E m \in Msgs, in \in PipeInputs : ProcessMessage(m, in)

SpecInbound == Init /\ [][NextInbound]_vars

NextPlugins ==
    \/ \E p \in Plugins, enabled \in BOOLEAN : RegisterPlugin(p, enabled)
    \/ \E p \in Plugins, ok \in BOOLEAN : InitializePluginSettles(p, ok)
    \/ \E p \in Plugins, destroyOk \in BOOLEAN : UnregisterPlugin(p, destroyOk)

SpecPlugins == Init /\ [][NextPlugins]_vars

\* Plugins registered, enabled and disabled between the events of the chain.
NextPluginMw ==
    \/ \E p \in {"alpha", "beta"}, enabled \in BOOLEAN : RegisterPlugin(p, enabled)
    \/ \E p \in {"alpha", "beta"} : EnablePlugin(p)
    \/ \E p \in {"alpha", "beta"}, destroyOk \in BOOLEAN : DisablePlugin(p, destroyOk)
    \/ \E p \in {"alpha", "beta"}, destroyOk \in BOOLEAN : UnregisterPlugin(p, destroyOk)
    \/ \E callsNext \in SUBSET {"alpha", "beta"} : ExecuteMiddlewares(callsNext)

SpecPluginMw == Init /\ [][NextPluginMw]_vars

NextSession ==
    \/ Initialize
    \/ \E ok \in BOOLEAN : InitializeSettles(ok)
    \/ ClientQr
    \/ QrRefreshFires
    \/ ClientReady
    \/ \E reason \in {"NAVIGATION", "LOGOUT"} : ClientDisconnected(reason)
    \/ \E probe \in {"CONNECTED", "other", "throws"} : PerformHealthCheck(probe)
    \/ ReconnectTimerFires
    \/ \E ok \in BOOLEAN : ReconnectSettles(ok)
    \/ Stop
    \/ \E clientThrows \in BOOLEAN : SendMessage(clientThrows)

SpecSession == Init /\ [][NextSession]_vars

\* The delays of the reconnection timers: reconnectInterval of 1000 ms and
\* of 5000 ms (the default), each attempt number up to the default
\* maxReconnectAttempts of 10, Math.random() in tenths.
NextDelay ==
    \E baseDelay \in {1000, 5000}, attempts \in 0..9, random \in 0..9 :
        CalculateReconnectDelay(baseDelay, attempts, random)

SpecDelay == Init /\ [][NextDelay]_vars

\* The session left to the events of its client and to its own timers:
\* nothing stops the bot and nothing is sent.
NextSessionEvents ==
    \/ Initialize
    \/ \E ok \in BOOLEAN : InitializeSettles(ok)
    \/ ClientQr
    \/ QrRefreshFires
    \/ ClientReady
    \/ \E reason \in {"NAVIGATION", "LOGOUT"} : ClientDisconnected(reason)
    \/ \E probe \in {"CONNECTED", "other", "throws"} : PerformHealthCheck(probe)
    \/ ReconnectTimerFires
    \/ \E ok \in BOOLEAN : ReconnectSettles(ok)

SpecSessionEvents == Init /\ [][NextSessionEvents]_vars

\* The same with the scheduling of the event loop: a pending timer fires, an
\* awaited initialize() settles, and a client that is opening becomes ready
\* unless its initialize() fails.
SpecSessionFair ==
    /\ SpecSessionEvents
    /\ WF_vars(ReconnectTimerFires)
    /\ WF_vars(\E ok \in BOOLEAN : ReconnectSettles(ok))
    /\ WF_vars(ClientReady)

---------------------------------------------------------------------------
(* Properties of the CommandManager.                                       *)

\* The token names command c: it is c's name or one of c's aliases, in any
\* letter case.
Names(token, c) ==
    \/ ToLowerCase(token) = ToLowerCase(c.name)
    \/ \E i \in DOMAIN c.aliases : ToLowerCase(token) = ToLowerCase(c.aliases[i])

Registered == {commands[k] : k \in {x \in Keys : commands[x] # NoCommand}}

\* C1: executeCommand on a token that is the name or an alias, in any letter
\* case, of a registered command c resolves to c itself, never to another
\* command and never to "unknown command".
C1_DispatchResolvesOwnCommand ==
    [][(/\ lastOp'.op = "execute"
        /\ \E handlerThrows \in BOOLEAN :
              ExecuteCommand(TRUE, lastOp'.token, lastOp'.chat, handlerThrows)) =>
          \A c \in Registered :
             Names(lastOp'.token, c) => lastOp'.found = ToLowerCase(c.name)]_vars

\* C2 as claimed: after executeCommand returned true for a command with
\* cooldown C > 0 in chat k at time t, a dispatch of that command in k at
\* t' < t + C returns false without invoking the handler, and one at
\* t' >= t + C invokes the handler and returns true.
C2_CooldownAsClaimed ==
    (/\ lastOp.op = "execute" /\ lastOp.found # ""
     /\ commands[lastOp.found].cooldown > 0 /\ lastOp.since # 0) =>
        IF now < lastOp.since + commands[lastOp.found].cooldown
        THEN lastOp.result = "false" /\ lastOp.invoked = NoHandler
        ELSE lastOp.result = "true" /\ lastOp.invoked = commands[lastOp.found].execute

\* C2 amended: as claimed, but the dispatch at t' >= t + C returns true only
\* when the handler completes; when the handler throws it returns false.
C2_Cooldown ==
    (/\ lastOp.op = "execute" /\ lastOp.found # ""
     /\ commands[lastOp.found].cooldown > 0 /\ lastOp.since # 0) =>
        IF now < lastOp.since + commands[lastOp.found].cooldown
        THEN lastOp.result = "false" /\ lastOp.invoked = NoHandler
        ELSE /\ lastOp.invoked = commands[lastOp.found].execute
             /\ lastOp.result = (IF lastOp.threw THEN "false" ELSE "true")

\* A dispatch of ping was skipped inside the cooldown window of an earlier
\* successful one in the same chat.
C2_Witness ==
    /\ lastOp.op = "execute" /\ lastOp.found = "ping"
    /\ lastOp.result = "false" /\ lastOp.invoked = NoHandler
    /\ lastOp.since # 0
    /\ lastOp.since < now
    /\ now < lastOp.since + PingCooldown

\* C8: registerCommand with an empty name or without an execute handler
\* fails and leaves the command, alias and cooldown maps as they were.
C8_InvalidRegistrationChangesNothing ==
    (/\ lastOp.op = "register"
     /\ (lastOp.arg.name = "" \/ lastOp.arg.execute = NoExecute)) =>
        lastOp.result = "error" /\ ~lastOp.changed

\* An invalid registration was refused while commands, aliases and a
\* cooldown bucket were in place.
C8_Witness ==
    /\ lastOp.op = "register" /\ lastOp.result = "error"
    /\ lastOp.arg.execute = NoExecute
    /\ commands["ping"] # NoCommand
    /\ commandAliases["p"] # NoAlias
    /\ commandCooldowns["ping"].present

\* C9: registerCommand of a command whose name equals, case-insensitively,
\* the name of a registered command fails, and the registered command and
\* its aliases stay in place.
C9_NameCollisionRejected ==
    [][\A command \in {c \in CommandInputs : c.name # "" /\ c.execute # NoExecute} :
          (/\ lastOp'.op = "register"
           /\ RegisterCommand(command)
           /\ commands[ToLowerCase(command.name)] # NoCommand) =>
             /\ lastOp'.result = "error"
             /\ UNCHANGED <<commands, commandAliases>>]_vars

\* C10: after unregisterCommand(name) succeeds, neither the name nor any
\* alias that resolved to the command resolves to a command, and the
\* command has no cooldown bucket.
C10_UnregisterRemovesAll ==
    [][(/\ lastOp'.op = "unregister"
        /\ UnregisterCommand(lastOp'.token)
        /\ commands[ToLowerCase(lastOp'.token)] # NoCommand) =>
          LET name == ToLowerCase(lastOp'.token)
              c    == commands[name]
          IN  /\ \A token \in Tokens :
                    findCommand(token) = c =>
                       findCommandIn(commands', commandAliases', token) = NoCommand
              /\ ~commandCooldowns'[name].present]_vars

\* C32: whichever way a command's handler is invoked (a message of the chat
\* or a 'command' event of the webhook), an invocation of a command with
\* cooldown C > 0 in a chat comes at least C after the command's last
\* successful dispatch in that chat.
C32_InvocationsCooldownApart ==
    (/\ lastOp.invoked # NoHandler
     /\ lastOp.since # 0
     /\ commands[lastOp.found].cooldown > 0) =>
        now - lastOp.since >= commands[lastOp.found].cooldown

\* C33: a registerCommand leaves every alias that already maps to another
\* command as it is: the alias keeps resolving to the command that claimed
\* it first.
C33_AliasFirstClaimKept ==
    [][\A alias \in DOMAIN commandAliases :
          (/\ lastOp'.op = "register"
           /\ commandAliases[alias] # NoAlias
           /\ commandAliases[alias] # ToLowerCase(lastOp'.arg.name)) =>
              commandAliases'[alias] = commandAliases[alias]]_vars

\* C34: registerCommand of a command whose cooldown is negative fails and
\* changes no map, and every registered command has a non-negative cooldown.
C34_CooldownValidated ==
    /\ (lastOp.op = "register" /\ lastOp.arg.cooldown < 0) =>
           (lastOp.result = "error" /\ ~lastOp.changed)
    /\ \A name \in DOMAIN commands :
           commands[name] # NoCommand => commands[name].cooldown >= 0

\* C35: an executeCommand call that returns true has incremented the usage
\* count of the command it dispatched by exactly one and no other count.
C35_SuccessCountsUsage ==
    [][(/\ lastOp' # lastOp
        /\ lastOp'.op = "execute"
        /\ lastOp'.result = "true") =>
           commandStats' = [commandStats EXCEPT ![lastOp'.found] = @ + 1]]_vars

\* C36: every entry of the alias map points to a command that is
\* registered.
C36_NoDanglingAlias ==
    \A alias \in DOMAIN commandAliases :
        commandAliases[alias] # NoAlias =>
            commands[commandAliases[alias]] # NoCommand

\* C37: unregisterCommand(A) leaves every token that resolved to another
\* command B resolving to B.
C37_UnregisterOnlyOwnEntries ==
    [][(lastOp'.op = "unregister" /\ lastOp'.result = "ok") =>
          \A token \in DOMAIN commands :
              LET before == findCommandIn(commands, commandAliases, token) IN
              (before # NoCommand
               /\ ToLowerCase(before.name) # ToLowerCase(lastOp'.token)) =>
                  findCommandIn(commands', commandAliases', token) = before]_vars

\* C38: the cooldown map holds buckets only for registered commands, also
\* when a dispatch finishes after its command was unregistered.
C38_BucketsOfRegisteredOnly ==
    \A name \in DOMAIN commandCooldowns :
        commandCooldowns[name].present => commands[name] # NoCommand

\* C20: of two messages with the same command in the same chat that are
\* processed at the same time, the handler is invoked for at most one when
\* the command has a cooldown: the test and the stamp of the cooldown act as
\* one atomic step, so the handler is never running twice for one command
\* and chat.
C20_CooldownCheckAndStampAtomic ==
    (/\ execs[1] # NoCommand /\ execs[2] # NoCommand
     /\ execs[1].cooldown > 0) =>
        execs[1] # execs[2]

---------------------------------------------------------------------------
(* Properties of the RateLimiterService.                                   *)

\* C3: for a chat with no rate-limit state, the first maxRequests calls made
\* within windowMs of the first are allowed, and call maxRequests + 1 within
\* the same window is denied with msBeforeNext > 0.
C3_FirstNAllowedThenDenied ==
    rlLast.op = "check" =>
       LET e == rlEpisode[rlLast.chat] IN
       (e.start # 0 /\ now < e.start + WindowMs) =>
          /\ e.calls <= MaxRequests => rlLast.allowed
          /\ e.calls = MaxRequests + 1 =>
                ~rlLast.allowed /\ rlLast.msBeforeNext > 0

\* Call maxRequests + 1 of a fresh chat came inside the window and was denied.
C3_Witness ==
    /\ rlLast.op = "check"
    /\ rlEpisode[rlLast.chat].start # 0
    /\ now < rlEpisode[rlLast.chat].start + WindowMs
    /\ rlEpisode[rlLast.chat].calls = MaxRequests + 1
    /\ ~rlLast.allowed
    /\ rlStore[rlLast.chat].count = MaxRequests

\* C4: for a chat whose stored window is exhausted, a checkRateLimit at a
\* time now >= resetTime (the Store answering) is allowed and rewrites the
\* stored window to count 1 and resetTime now + windowMs.
C4_ExpiredWindowReinitialized ==
    [][(/\ rlLast'.op = "check"
        /\ rlLast'.fault = "none"
        /\ CheckRateLimit(rlLast'.chat, "none")
        /\ rlStore[rlLast'.chat].present
        /\ rlStore[rlLast'.chat].count >= MaxRequests
        /\ now >= rlStore[rlLast'.chat].resetTime) =>
          /\ rlLast'.allowed
          /\ rlStore'[rlLast'.chat] =
                [present |-> TRUE, count |-> 1, resetTime |-> now + WindowMs]]_vars

\* C17: when the counting mechanism fails during checkRateLimit (the Store's
\* read or write throws, or the in-memory limiter fails with an error), the
\* call returns allowed = true, and on that answer the rate-limit middleware
\* lets the event through to the rest of the chain.
C17_CountingFailureFailsOpen ==
    (rlLast.op = "check" /\ rlLast.fault # "none") =>
        /\ rlLast.allowed
        /\ "commandProcessor" \in
              next([index |-> 0, threw |-> FALSE, ran |-> {}, order |-> <<>>,
                    proceeded |-> {}, replies |-> 0, escaped |-> FALSE],
                   [rl |-> IF rlLast.allowed THEN "allowed" ELSE "denied",
                    logging |-> "no", cmd |-> "false", tail |-> "none",
                    replyThrows |-> FALSE]).ran

\* The Store's write threw on the last call the window had room for: the
\* call was allowed, and the Store's row did not count it.
C17_Witness ==
    /\ rlLast.op = "check" /\ rlLast.fault = "update"
    /\ rlLast.allowed
    /\ rlMemory[rlLast.chat].points = MaxRequests
    /\ rlStore[rlLast.chat].present
    /\ rlStore[rlLast.chat].count = MaxRequests - 1
    /\ now <= rlStore[rlLast.chat].resetTime

\* C28: a checkRateLimit on a chat whose stored window has not expired (the
\* Store answering) is allowed exactly when the stored count is below
\* maxRequests, whatever the in-memory limiter holds.
C28_StoreDecides ==
    [][(/\ rlLast'.op = "check"
        /\ rlLast'.fault = "none"
        /\ CheckRateLimit(rlLast'.chat, "none")
        /\ rlStore[rlLast'.chat].present
        /\ ~storeExpired(rlStore[rlLast'.chat])) =>
          (rlLast'.allowed <=> rlStore[rlLast'.chat].count < MaxRequests)]_vars

\* C29: a checkRateLimit that returns allowed = false changes neither the
\* in-memory counter nor the Store's counter of the chat.
C29_DenialChangesNoCounter ==
    [][(/\ rlLast'.op = "check"
        /\ rlLast'.fault = "none"
        /\ CheckRateLimit(rlLast'.chat, "none")
        /\ ~rlLast'.allowed) =>
          /\ rlMemory'[rlLast'.chat] = rlMemory[rlLast'.chat]
          /\ rlStore'[rlLast'.chat] = rlStore[rlLast'.chat]]_vars

\* C21: when the checkRateLimit calls on a chat that ran interleaved at their
\* await points within one window have all completed, the Store's count of
\* the chat equals the number of those calls that returned allowed = true.
C21_NoLostUpdate ==
    \A k \in Chats :
        (\A i \in 1..2 : rlCalls[i].chat # k) =>
            rlStore[k].count = rlAllowed[k]

---------------------------------------------------------------------------
(* Properties of the WebhookService.                                       *)

\* C5 as claimed: verifying payload p against the signature generated for
\* payload p' returns true when p' = p and false for every p' other than p,
\* with generateSignature/verifySignature and with the Hmac pair.
C5_SignatureRoundTripAsClaimed ==
    (/\ sigLast.op \in {"verifySignature", "verifyHmacSignature"}
     /\ sigSigned # NoPayload) =>
        sigLast.result = (sigLast.payload = sigSigned)

\* C5 amended: verifying p against the signature generated for p' returns
\* true when p' = p and false for every p' whose UTF-8 encoding differs from
\* that of p; it returns true for two different strings with one encoding
\* (unpaired surrogates are all hashed as U+FFFD).
C5_SignatureRoundTrip ==
    (/\ sigLast.op \in {"verifySignature", "verifyHmacSignature"}
     /\ sigSigned # NoPayload) =>
        sigLast.result = (utf8(sigLast.payload, 1) = utf8(sigSigned, 1))

\* The body {"event":"ping"} was verified against the signature of the body
\* with "x" appended, and refused.
C5_Witness ==
    /\ sigLast.op = "verifySignature"
    /\ sigLast.payload = PingBody
    /\ sigSigned = PingBodyX
    /\ ~sigLast.result
    /\ Len(sigSignature) = 64

---------------------------------------------------------------------------
(* Properties of the POST /webhook handler.                                *)

\* C11: a POST /webhook request whose x-webhook-signature does not verify
\* against the request body never makes processWebhookEvent run (no message
\* enters the pipeline, no command handler runs, no broadcast is sent), and
\* its response is the generic rejection.
C11_BadSignatureNeverProcessed ==
    (/\ whLast.op = "webhook"
     /\ ~verifyHmacSignature(whLast.body, whLast.signature)) =>
        /\ whLast.ran = "none"
        /\ whLast.sends = 0
        /\ whLast.response = "Invalid signature"

\* The broadcast body came with the signature of another body and was
\* rejected.
C11_Witness ==
    /\ whLast.op = "webhook"
    /\ whLast.body = BroadcastBody
    /\ whLast.signature = createHmacSignature(PingBody)
    /\ whLast.response = "Invalid signature"
    /\ whLast.sends = 0

\* C12: every request that the POST /webhook handler accepted and processed
\* had a timestamp within the tolerance: now - timestamp <= webhookTimeout.
C12_StaleTimestampRejected ==
    (whLast.op = "webhook" /\ whLast.ran # "none") =>
        now - whLast.timestamp <= WebhookTimeout

---------------------------------------------------------------------------
(* Properties of the inbound message path.                                 *)

\* C13: for every inbound message, received or self-sent, saveConversation
\* is called before the message is handed to the pipeline: no message has
\* had message_received emitted without the save call having been made.
C13_SaveBeforeHandOff ==
    \A m \in Msgs : inbound[m].handed => inbound[m].save # "none"

\* A self-sent message was saved and handed on while the save of a received
\* one was still pending.
C13_Witness ==
    /\ inbound["m1"].event = "message_create"
    /\ inbound["m1"].save = "ok" /\ inbound["m1"].handed
    /\ inbound["m2"].event = "message"
    /\ inbound["m2"].save = "pending" /\ ~inbound["m2"].handed

\* C14: when saveConversation fails for an inbound message, the message is
\* still handed to the pipeline: message_received is emitted for it.
C14_SaveFailureStillHandsOn ==
    \A m \in Msgs : inbound[m].save = "failed" => inbound[m].handed

\* C15: the errorHandler middleware never throws: whatever the middlewares
\* after it raise, and even when its apology reply fails, it completes, and
\* it has attempted exactly one apology reply when they raised a failure
\* (none when they did not).
C15_ErrorBoundaryNeverThrows ==
    (pipeLast.msg # "none" /\ "errorHandler" \in pipeLast.ran) =>
       /\ ~pipeLast.escaped
       /\ pipeLast.replies =
             IF pipeLast.in.cmd # "true" /\ pipeLast.in.tail = "throws" THEN 1 ELSE 0

\* The plugin's middleware threw behind the error boundary, the apology
\* reply failed as well, and the chain completed.
C15_Witness ==
    /\ pipeLast.msg # "none"
    /\ pipeLast.ran = {"rateLimit", "logging", "errorHandler", "commandProcessor",
                       "plugin"}
    /\ pipeLast.in.tail = "throws"
    /\ pipeLast.in.replyThrows
    /\ pipeLast.replies = 1
    /\ ~pipeLast.threw

\* C31: a message whose rate-limit check returned allowed = false runs no
\* stage behind the rate-limit middleware: no logging, no error boundary, no
\* command dispatch (so no command handler) and no plugin middleware.
C31_DeniedRunsNothing ==
    (pipeLast.msg # "none" /\ pipeLast.in.rl = "denied") =>
        /\ pipeLast.order = <<"rateLimit">>
        /\ pipeLast.ran = {"rateLimit"}

\* A rate-limited message that carried a command some handler would have run,
\* with a plugin's middleware registered.
C31_Witness ==
    /\ pipeLast.msg # "none"
    /\ pipeLast.in.rl = "denied"
    /\ pipeLast.in.cmd = "true" /\ pipeLast.in.tail = "ok"
    /\ pipeLast.order = <<"rateLimit">>
    /\ inbound[pipeLast.msg].pipe = "completed"

\* C30: for every message the chain runs its middlewares in the order of
\* their registration (rateLimit, logging, errorHandler, commandProcessor,
\* then the plugin's), each at most once, and a middleware runs only when
\* the one registered before it has called next().
C30_RegistrationOrder ==
    pipeLast.msg # "none" =>
        LET registered == <<"rateLimit", "logging", "errorHandler", "commandProcessor",
                            "plugin">>
            order == pipeLast.order
        IN  /\ Len(order) <= Len(registered)
            /\ \A k \in 1..Len(order) : order[k] = registered[k]
            /\ \A k \in 2..Len(order) : order[k - 1] \in pipeLast.proceeded

\* C16: no failure of a middleware or of a command handler escapes
\* processMessage, the rate-limit and logging stages in front of the error
\* boundary included: processMessage never rejects, and later events are
\* processed.
C16_NothingEscapesProcessMessage ==
    /\ pipeLast.msg # "none" => ~pipeLast.rejected
    /\ \A m \in Msgs : inbound[m].pipe # "rejected"

\* The rate-limit check and the logging stage both threw for one message, in
\* front of the error boundary, and processMessage caught the failure; then
\* the other message was processed and its command executed.
C16_Witness ==
    /\ inbound["m1"].pipe = "caught"
    /\ pipeLast.msg = "m2"
    /\ pipeLast.in.rl = "throws" /\ pipeLast.in.logging = "no"
    /\ pipeLast.in.cmd = "true"
    /\ "commandProcessor" \in pipeLast.ran
    /\ ~pipeLast.rejected

---------------------------------------------------------------------------
(* Properties of the plugins.                                              *)

\* C19: a plugin whose initialize or destroy fails is isolated: the failure
\* is logged, it is no unhandled rejection and does not abort the process,
\* and the other plugins can still be registered, initialized and destroyed.
C19_PluginFailureIsolated ==
    (\E p \in Plugins : plugins[p].init = "failed" \/ plugins[p].destroy = "failed") =>
        ~aborted

---------------------------------------------------------------------------
(* Properties of the WhatsAppClient.                                       *)

\* C39: the middleware of a plugin that is registered and not enabled does
\* not run for an inbound event.
C39_DisabledPluginSkipped ==
    mwLast.op = "execute" => mwLast.ran \cap mwLast.disabled = {}

\* C18: once max_reconnect_attempts_reached has been emitted the bot is
\* stopped, the client destroyed and running false, and the session stays
\* so until initialize() is called again: no reconnection timer is pending,
\* no reconnect() is under way and none runs.
C18_FailedIsTerminal ==
    failed =>
       /\ client = "destroyed" /\ ~running
       /\ reconnectTimers = 0 /\ reconnectInits = 0
       /\ sessLast.op # "reconnect"

\* C40: a stop() call on a bot that is not running destroys no session,
\* cleans up no middleware manager and closes no database.
C40_StopNotRunningNoOp ==
    (stopLast.op = "stop" /\ ~stopLast.wasRunning) =>
        (~stopLast.destroyed /\ ~stopLast.cleaned /\ ~stopLast.closed)

C23_ReconnectingEnds ==
    (sessLast.op = "reconnect_failed" /\ reconnectAttempts < MaxReconnectAttempts)
        ~> (client = "ready" \/ failed)

\* C24: once destroy() has run, no timer of the session is pending and none
\* fires: the QR refresh timer, the health-check timer and the reconnection
\* timers are cancelled, so no timer callback runs on the destroyed session.
C24_DestroyCancelsTimers ==
    /\ client = "destroyed" =>
          (~qrRefreshTimer /\ ~healthCheckTimer /\ reconnectTimers = 0)
    /\ sessLast.op \in {"qr_refresh", "health_check", "reconnect"} =>
          sessLast.state # "destroyed"

\* C25: the QR refresh timer and the health-check timer are never armed at
\* the same time.
C25_TimersExclusive ==
    ~(qrRefreshTimer /\ healthCheckTimer)

\* C26: a health check that fails while the client is ready and the session
\* is not reconnecting, whether getState() throws or reports a state other
\* than CONNECTED, emits health_check_failed and schedules a reconnection.
C26_FailedProbeReconnects ==
    [][(/\ client = "ready" /\ ~reconnecting
        /\ sessLast'.op = "health_check"
        /\ sessLast'.result = "health_check_failed") =>
            (reconnecting' /\ reconnectTimers' = reconnectTimers + 1)]_vars

\* C27: the reconnection delay d of attempt a lies between the capped delay
\* min(baseDelay * 2^a, 30000) and that plus 10 per cent of it.
C27_DelayWithinJitter ==
    delayLast.op = "delay" =>
        LET capped == Min(delayLast.baseDelay * 2^delayLast.attempts, 30000) IN
        /\ capped <= delayLast.delay
        /\ 10 * delayLast.delay <= 11 * capped

\* C6: a run of failed reconnection attempts goes on until
\* maxReconnectAttempts of them have failed in a row, and then
\* max_reconnect_attempts_reached has been emitted exactly once: while fewer
\* have failed a further attempt is pending or under way, and the event is
\* never emitted a second time.
C6_ConsecutiveFailuresExhaust ==
    failedRun > 0 =>
       /\ exhausted <= 1
       /\ failedRun >= MaxReconnectAttempts => exhausted = 1
       /\ (failedRun < MaxReconnectAttempts /\ client # "destroyed") =>
             (reconnectTimers > 0 \/ reconnectInits > 0)

\* C7: a sendMessage made while the client is not connected fails with
\* NotConnected and hands no text to the underlying client.
C7_SendOnlyWhenConnected ==
    (sessLast.op = "send" /\ sessLast.state # "ready") =>
        (sessLast.result = "NotConnected" /\ ~sessLast.handed)

=============================================================================
